---- MODULE Spec2Model ----
(***************************************************************************)
(* Model of yewdux's Mrc<T> (crates/yewdux/src/mrc.rs): a reference        *)
(* counted, runtime-borrow-checked cell with a per-handle change marker    *)
(* (nonce) drawn from a thread-local wrapping u32 counter.                 *)
(*                                                                         *)
(* Program state: NONCE (the thread local), mrc (the Mrc handles that are  *)
(* alive, by slot), cells (the Rc<RefCell<T>> allocations, by address),    *)
(* rg / wg (the guards that are alive, by the handle they borrow), store   *)
(* and flag (the Dispatch<TestState> of the tests and their observer).     *)
(* History variables, never read by the program's actions to decide        *)
(* anything: wraps, draws, loops, cluster, parent, since, shadow, result.    *)
(***************************************************************************)
EXTENDS Integers, FiniteSets

VARIABLES NONCE, mrc, cells, rg, wg, store, flag,
          wraps, draws, loops, cluster, parent, since, shadow, result

vars == <<NONCE, mrc, cells, rg, wg, store, flag,
          wraps, draws, loops, cluster, parent, since, shadow, result>>

(* ------------------------------ bounds -------------------------------- *)
\* Number of handle slots (local variables holding an Mrc).
MaxHandles == 3
\* Number of heap addresses an Rc<RefCell<T>> can be allocated at.
MaxCells == 2
\* Wrapped values range over 0..MaxVal.
MaxVal == 1
\* Read guards alive at once on one RefCell.
MaxReaders == 2
\* Single calls of nonce() explored (Mrc::new, borrow_mut, with_mut).
MaxDraws == 2
\* Long loops of Mrc::new explored.
MaxLoops == 1

(* ----------------------------- constants ------------------------------ *)
\* u32, the type of NONCE and of Mrc::nonce, is kept at its width of 32 bits: a
\* value is the record of its two 16-bit halves, hi * 2^16 + lo.
Half == 2^16
U32(hi, lo) == [hi |-> hi, lo |-> lo]
Zero == U32(0, 0)
One == U32(0, 1)
U32Max == U32(Half - 1, Half - 1)
Less(a, b) == a.hi < b.hi \/ (a.hi = b.hi /\ a.lo < b.lo)

Handles == 1..MaxHandles
Addrs == 1..MaxCells
Values == 0..MaxVal
\* The address of the cell of the store's own state; no handle slot points to it.
StoreAddr == MaxCells + 1

\* An unoccupied handle slot, a free address.
NoMrc == [inner |-> 0, nonce |-> Zero]
FreeCell == [value |-> 0, borrow |-> 0, strong |-> 0]

\* The closures given to with_mut / applied through a write guard:
\*   "noop" |v| *v        "inc" |v| { *v += 1; *v }      "take" |v| mem::take(v)
Closures == {"noop", "inc", "take"}
\* The reducers of the tests, |state| { state.0.borrow_mut(); } and
\* |state| state.0.with_mut(|_| ()), and two that take no write access.
WriteReducers == {"borrow_mut", "with_mut"}
Reducers == WriteReducers \cup {"borrow", "nothing"}
\* Lengths of a loop of `drop(Mrc::new(v))`: long enough to reach the wrap-around.
LoopCounts == {U32(Half - 1, Half - 2), U32(Half - 1, Half - 1)}

Live(h) == mrc[h] # NoMrc

\* The exploration budget: single calls of nonce() and long loops still allowed.
MayDraw == draws < MaxDraws
MayLoop == loops < MaxLoops

(* ------------------------- the code, as operators ---------------------- *)
\* nonce(): nonce.set(nonce.get().wrapping_add(1)); nonce.get()
WrappingAdd(n, k) ==
    LET lo == n.lo + k.lo
        hi == n.hi + k.hi + (IF lo >= Half THEN 1 ELSE 0)
    IN U32(hi % Half, lo % Half)
\* (mutant) saturating_add in place of wrapping_add
NextNonceSaturating(n) == IF n = U32Max THEN n ELSE WrappingAdd(n, One)
NextNonce(n) == WrappingAdd(n, One)
\* Whether that addition wraps around (history only: wrapping_add reports nothing).
Wraps(n, k) == n.hi + k.hi + (IF n.lo + k.lo >= Half THEN 1 ELSE 0) >= Half
WrapsAfter(n, k) == wraps + (IF Wraps(n, k) THEN 1 ELSE 0)

\* Mrc::new: Self { inner: Rc::new(RefCell::new(value)), nonce: nonce() }
MrcNew(a, n) == [inner |-> a, nonce |-> NextNonce(n)]
NewCell(v) == [value |-> v, borrow |-> 0, strong |-> 1]

\* Clone: Self { inner: Rc::clone(&self.inner), nonce: self.nonce }
\* (mutant) a clone that draws a marker of its own
MrcCloneFresh(m) == [inner |-> m.inner, nonce |-> NextNonce(m.nonce)]
MrcClone(m) == [inner |-> m.inner, nonce |-> m.nonce]

\* PartialEq::eq: Rc::ptr_eq(&self.inner, &other.inner) && self.nonce == other.nonce
\* (mutant) eq that leaves out Rc::ptr_eq
MrcEqMarkerOnly(a, b) == a.nonce = b.nonce
MrcEq(a, b) == a.inner = b.inner /\ a.nonce = b.nonce

\* borrow_mut, first statement: self.nonce = nonce()
\* (mutant) borrow_mut that calls nonce() and drops the result
MarkUnchanged(m, n) == m
MarkChanged(m, n) == [m EXCEPT !.nonce = NextNonce(n)]

\* RefCell::borrow / RefCell::borrow_mut succeed on these borrow flags
\* (flag > 0: that many readers; flag = -1: a writer).
CanRead(c) == c.borrow >= 0
\* (mutant) a write borrow that only looks for another writer
CanWriteBesideReaders(c) == c.borrow >= 0
CanWrite(c) == c.borrow = 0

\* What a closure does to the value and what it returns.
Apply(f, v) == IF f = "inc" THEN v + 1 ELSE IF f = "take" THEN 0 ELSE v
Result(f, v) == IF f = "inc" THEN v + 1 ELSE v

\* Mrc::borrow on a cell c: self.inner.borrow()
BorrowOn(c) ==
    [c |-> IF CanRead(c) THEN [c EXCEPT !.borrow = @ + 1] ELSE c,
     ok |-> CanRead(c)]

\* Mrc::borrow_mut on a handle m of cell c, the counter at n:
\* self.nonce = nonce(); self.inner.borrow_mut()
\* (mutant) borrow_mut that marks the handle after the borrow succeeded
BorrowMutMarksLate(m, c, n) ==
    [m |-> IF CanWrite(c) THEN MarkChanged(m, n) ELSE m,
     n |-> IF CanWrite(c) THEN NextNonce(n) ELSE n,
     c |-> IF CanWrite(c) THEN [c EXCEPT !.borrow = -1] ELSE c,
     ok |-> CanWrite(c)]
BorrowMutOn(m, c, n) ==
    [m |-> MarkChanged(m, n),
     n |-> NextNonce(n),
     c |-> IF CanWrite(c) THEN [c EXCEPT !.borrow = -1] ELSE c,
     ok |-> CanWrite(c)]

\* f(guard.deref_mut()), and the guards' drops.
\* (mutant) f applied to a copy of the value
DerefMutOnCopy(c, f) == [c |-> c, ret |-> Result(f, c.value)]
DerefMutOn(c, f) == [c |-> [c EXCEPT !.value = Apply(f, @)], ret |-> Result(f, c.value)]
DropWriteOn(c) == [c EXCEPT !.borrow = 0]
DropReadOn(c) == [c EXCEPT !.borrow = @ - 1]

\* Mrc::with_mut on a handle m of cell c, the counter at n:
\* let mut this = self.borrow_mut(); f(this.deref_mut())   (this dropped on return)
\* (mutant) with_mut that borrows the cell without marking the handle
WithMutUnmarked(m, c, n, f) ==
    [m |-> m,
     n |-> n,
     c |-> IF CanWrite(c) THEN [c EXCEPT !.value = Apply(f, @)] ELSE c,
     ok |-> CanWrite(c),
     ret |-> IF CanWrite(c) THEN Result(f, c.value) ELSE 0]
\* (mutant) with_mut that marks the handle after the borrow succeeded
WithMutMarksLate(m, c, n, f) ==
    [m |-> IF CanWrite(c) THEN MarkChanged(m, n) ELSE m,
     n |-> IF CanWrite(c) THEN NextNonce(n) ELSE n,
     c |-> IF CanWrite(c) THEN [c EXCEPT !.value = Apply(f, @)] ELSE c,
     ok |-> CanWrite(c),
     ret |-> IF CanWrite(c) THEN Result(f, c.value) ELSE 0]
WithMutOn(m, c, n, f) ==
    [m |-> MarkChanged(m, n),
     n |-> NextNonce(n),
     c |-> IF CanWrite(c) THEN [c EXCEPT !.value = Apply(f, @)] ELSE c,
     ok |-> CanWrite(c),
     ret |-> IF CanWrite(c) THEN Result(f, c.value) ELSE 0]

(* --------------------------- history helpers --------------------------- *)
\* The smallest cluster label no live handle carries.
FreshLabel == CHOOSE l \in Handles :
                 /\ \A h \in Handles : cluster[h] # l
                 /\ \A k \in Handles : k < l => \E h \in Handles : cluster[h] = k

\* The slot the next `let` binds: the first unoccupied one (slots are only names).
FreeSlot(h) == ~Live(h) /\ \A k \in Handles : k < h => Live(k)

\* since[s]: through which handles write access to the value was acquired since
\* s was cloned from parent[s]: "h" the parent, "s" the clone, "o" another one.
SinceAfterWrite(h, ok) ==
    [s \in Handles |->
        IF parent[s] = 0 \/ ~ok THEN since[s]
        ELSE IF s = h THEN since[s] \cup {"s"}
        ELSE IF parent[s] = h THEN since[s] \cup {"h"}
        ELSE IF cluster[s] = cluster[h] THEN since[s] \cup {"o"}
        ELSE since[s]]

\* How the last operation ended: a failed borrow panics with the borrow conflict.
Outcome(ok) == IF ok THEN "ok" ELSE "BorrowError"
NoWrite == [val |-> 0, by |-> "none"]

\* The cell behind h, and what h.borrow() dereferences to.
Cell(h) == cells[mrc[h].inner]
Observed(h) == Cell(h).value

(* -------------------------------- Init -------------------------------- *)
Init ==
    /\ NONCE = Zero
    /\ mrc = [h \in Handles |-> NoMrc]
    /\ cells = [a \in Addrs |-> FreeCell]
    /\ rg = [h \in Handles |-> 0]
    /\ wg = [h \in Handles |-> FALSE]
    /\ store = NoMrc
    /\ flag = FALSE
    /\ wraps = 0
    /\ draws = 0
    /\ loops = 0
    /\ cluster = [h \in Handles |-> 0]
    /\ parent = [h \in Handles |-> 0]
    /\ since = [h \in Handles |-> {}]
    /\ shadow = [l \in Handles |-> NoWrite]
    /\ result = Outcome(TRUE)

(* ------------------------------- actions ------------------------------ *)
\* let h = Mrc::new(v);   (the allocator picks any free address a)
new(h, v, a) ==
    /\ FreeSlot(h)
    /\ cells[a].strong = 0
    /\ MayDraw
    /\ NONCE' = NextNonce(NONCE)
    /\ wraps' = WrapsAfter(NONCE, One)
    /\ draws' = draws + 1
    /\ mrc' = [mrc EXCEPT ![h] = MrcNew(a, NONCE)]
    /\ cells' = [cells EXCEPT ![a] = NewCell(v)]
    /\ cluster' = [cluster EXCEPT ![h] = FreshLabel]
    /\ shadow' = [shadow EXCEPT ![FreshLabel] = [val |-> v, by |-> "new"]]
    /\ result' = Outcome(TRUE)
    /\ UNCHANGED <<loops, rg, wg, store, flag, parent, since>>

\* for _ in 0..k { drop(Mrc::new(v)) }: k calls of nonce(), nothing kept.
new_drop_loop(k) ==
    /\ \E a \in Addrs : cells[a].strong = 0
    /\ MayLoop
    /\ NONCE' = WrappingAdd(NONCE, k)
    /\ wraps' = WrapsAfter(NONCE, k)
    /\ loops' = loops + 1
    /\ result' = Outcome(TRUE)
    /\ UNCHANGED <<draws, mrc, cells, rg, wg, store, flag, cluster, parent, since, shadow>>

\* let s = h.clone();   (no write guard borrows h)
clone(h, s) ==
    /\ Live(h) /\ ~wg[h]
    /\ FreeSlot(s)
    /\ mrc' = [mrc EXCEPT ![s] = MrcClone(mrc[h])]
    /\ cells' = [cells EXCEPT ![mrc[h].inner].strong = @ + 1]
    /\ cluster' = [cluster EXCEPT ![s] = cluster[h]]
    /\ parent' = [parent EXCEPT ![s] = h]
    /\ since' = [since EXCEPT ![s] = {}]
    /\ result' = Outcome(TRUE)
    /\ UNCHANGED <<draws, loops, NONCE, rg, wg, store, flag, wraps, shadow>>

\* drop(h);   (no guard borrows h)   The last handle's drop frees the cell.
drop_handle(h) ==
    /\ Live(h) /\ ~wg[h] /\ rg[h] = 0
    /\ mrc' = [mrc EXCEPT ![h] = NoMrc]
    /\ cells' = [cells EXCEPT ![mrc[h].inner] =
                    IF @.strong = 1 THEN FreeCell ELSE [@ EXCEPT !.strong = @ - 1]]
    /\ cluster' = [cluster EXCEPT ![h] = 0]
    /\ parent' = [s \in Handles |-> IF s = h \/ parent[s] = h THEN 0 ELSE parent[s]]
    /\ since' = [s \in Handles |-> IF s = h \/ parent[s] = h THEN {} ELSE since[s]]
    /\ shadow' = IF Cell(h).strong = 1 THEN [shadow EXCEPT ![cluster[h]] = NoWrite]
                 ELSE shadow
    /\ result' = Outcome(TRUE)
    /\ UNCHANGED <<draws, loops, NONCE, rg, wg, store, flag, wraps>>

\* (mutant) borrow that marks the handle changed, as borrow_mut does
borrow_marking(h) ==
    /\ Live(h) /\ ~wg[h]
    /\ Cell(h).borrow < MaxReaders
    /\ MayDraw
    /\ mrc' = [mrc EXCEPT ![h] = MarkChanged(@, NONCE)]
    /\ NONCE' = NextNonce(NONCE)
    /\ wraps' = WrapsAfter(NONCE, One)
    /\ draws' = draws + 1
    /\ cells' = [cells EXCEPT ![mrc[h].inner] = BorrowOn(@).c]
    /\ rg' = IF BorrowOn(Cell(h)).ok THEN [rg EXCEPT ![h] = @ + 1] ELSE rg
    /\ result' = Outcome(BorrowOn(Cell(h)).ok)
    /\ UNCHANGED <<loops, wg, store, flag, cluster, parent, since, shadow>>

\* let g = h.borrow();   panics with the borrow conflict when a writer is alive.
borrow(h) ==
    /\ Live(h) /\ ~wg[h]
    /\ Cell(h).borrow < MaxReaders
    /\ cells' = [cells EXCEPT ![mrc[h].inner] = BorrowOn(@).c]
    /\ rg' = IF BorrowOn(Cell(h)).ok THEN [rg EXCEPT ![h] = @ + 1] ELSE rg
    /\ result' = Outcome(BorrowOn(Cell(h)).ok)
    /\ UNCHANGED <<draws, loops, NONCE, mrc, wg, store, flag, wraps, cluster, parent,
                   since, shadow>>

\* drop(g) of a read guard taken through h.
drop_read(h) ==
    /\ rg[h] > 0
    /\ rg' = [rg EXCEPT ![h] = @ - 1]
    /\ cells' = [cells EXCEPT ![mrc[h].inner] = DropReadOn(@)]
    /\ result' = Outcome(TRUE)
    /\ UNCHANGED <<draws, loops, NONCE, mrc, wg, store, flag, wraps, cluster, parent,
                   since, shadow>>

\* let g = h.borrow_mut();   marks h changed, then panics when any guard is alive.
borrow_mut(h) ==
    /\ Live(h) /\ ~wg[h] /\ rg[h] = 0
    /\ MayDraw
    /\ LET b == BorrowMutOn(mrc[h], Cell(h), NONCE)
       IN /\ mrc' = [mrc EXCEPT ![h] = b.m]
          /\ NONCE' = b.n
          /\ cells' = [cells EXCEPT ![mrc[h].inner] = b.c]
          /\ wg' = IF b.ok THEN [wg EXCEPT ![h] = TRUE] ELSE wg
          /\ since' = SinceAfterWrite(h, b.ok)
          /\ result' = Outcome(b.ok)
    /\ wraps' = WrapsAfter(NONCE, One)
    /\ draws' = draws + 1
    /\ UNCHANGED <<loops, rg, store, flag, cluster, parent, shadow>>

\* f(g.deref_mut()) through the write guard taken through h.
deref_mut(h, f) ==
    /\ wg[h]
    /\ Apply(f, Observed(h)) \in Values
    /\ cells' = [cells EXCEPT ![mrc[h].inner] = DerefMutOn(@, f).c]
    /\ shadow' = [shadow EXCEPT ![cluster[h]] =
                     [val |-> Apply(f, Observed(h)), by |-> "deref_mut"]]
    /\ result' = Outcome(TRUE)
    /\ UNCHANGED <<draws, loops, NONCE, mrc, rg, wg, store, flag, wraps, cluster, parent,
                   since>>

\* drop(g) of the write guard taken through h.
drop_write(h) ==
    /\ wg[h]
    /\ wg' = [wg EXCEPT ![h] = FALSE]
    /\ cells' = [cells EXCEPT ![mrc[h].inner] = DropWriteOn(@)]
    /\ result' = Outcome(TRUE)
    /\ UNCHANGED <<draws, loops, NONCE, mrc, rg, store, flag, wraps, cluster, parent,
                   since, shadow>>

\* h.with_mut(f)
with_mut(h, f) ==
    /\ Live(h) /\ ~wg[h] /\ rg[h] = 0
    /\ MayDraw
    /\ Apply(f, Observed(h)) \in Values
    /\ LET w == WithMutOn(mrc[h], Cell(h), NONCE, f)
       IN /\ mrc' = [mrc EXCEPT ![h] = w.m]
          /\ NONCE' = w.n
          /\ cells' = [cells EXCEPT ![mrc[h].inner] = w.c]
          /\ since' = SinceAfterWrite(h, w.ok)
          /\ shadow' = IF w.ok
                       THEN [shadow EXCEPT ![cluster[h]] =
                                [val |-> Apply(f, Observed(h)), by |-> "with_mut"]]
                       ELSE shadow
          /\ result' = Outcome(w.ok)
    /\ wraps' = WrapsAfter(NONCE, One)
    /\ draws' = draws + 1
    /\ UNCHANGED <<loops, rg, wg, store, flag, cluster, parent>>

\* Dispatch::<TestState>::subscribe(observer): the store's state is
\* TestState(Mrc::new(0)); whether the observer runs at once is left open.
subscribe(ran) ==
    /\ store = NoMrc
    /\ MayDraw
    /\ store' = MrcNew(StoreAddr, NONCE)
    /\ NONCE' = NextNonce(NONCE)
    /\ wraps' = WrapsAfter(NONCE, One)
    /\ draws' = draws + 1
    /\ flag' = ran
    /\ result' = Outcome(TRUE)
    /\ UNCHANGED <<loops, mrc, cells, rg, wg, cluster, parent, since, shadow>>

\* The tests' `*flag.borrow_mut() = false`, the observer's flag taken as a bool.
reset_flag ==
    /\ store # NoMrc
    /\ flag
    /\ flag' = FALSE
    /\ result' = Outcome(TRUE)
    /\ UNCHANGED <<draws, loops, NONCE, mrc, cells, rg, wg, store, wraps, cluster, parent,
                   since, shadow>>

\* The state a reducer leaves: r runs on a clone of the store's state.
Reduced(r) ==
    IF r \in WriteReducers
    THEN BorrowMutOn(MrcClone(store), NewCell(0), NONCE).m
    ELSE MrcClone(store)

\* dispatch.reduce(r): the reduced clone replaces the state, and the observer is
\* notified, when the clone compares unequal to the state.
reduce(r) ==
    /\ store # NoMrc
    /\ r \in WriteReducers => MayDraw
    /\ store' = IF MrcEq(store, Reduced(r)) THEN store ELSE Reduced(r)
    /\ flag' = (flag \/ ~MrcEq(store, Reduced(r)))
    /\ NONCE' = IF r \in WriteReducers THEN NextNonce(NONCE) ELSE NONCE
    /\ wraps' = IF r \in WriteReducers THEN WrapsAfter(NONCE, One) ELSE wraps
    /\ draws' = IF r \in WriteReducers THEN draws + 1 ELSE draws
    /\ result' = Outcome(TRUE)
    /\ UNCHANGED <<loops, mrc, cells, rg, wg, cluster, parent, since, shadow>>

Next ==
    \/ \E h \in Handles, v \in Values, a \in Addrs : new(h, v, a)
    \/ \E k \in LoopCounts : new_drop_loop(k)
    \/ \E h, s \in Handles : clone(h, s)
    \/ \E h \in Handles : drop_handle(h)
    \/ \E h \in Handles : borrow(h)
    \/ \E h \in Handles : drop_read(h)
    \/ \E h \in Handles : borrow_mut(h)
    \/ \E h \in Handles, f \in Closures : deref_mut(h, f)
    \/ \E h \in Handles : drop_write(h)
    \/ \E h \in Handles, f \in Closures : with_mut(h, f)
    \/ \E ran \in BOOLEAN : subscribe(ran)
    \/ reset_flag
    \/ \E r \in Reducers : reduce(r)

Spec == Init /\ [][Next]_vars

(* ------------------------------ properties ----------------------------- *)
RECURSIVE SumRg(_)
SumRg(S) == IF S = {} THEN 0
            ELSE LET h == CHOOSE x \in S : TRUE IN rg[h] + SumRg(S \ {h})

\* The guards alive on the storage of cluster l, whatever handle they were taken through.
Writers(l) == Cardinality({h \in Handles : cluster[h] = l /\ wg[h]})
Readers(l) == SumRg({h \in Handles : cluster[h] = l})

\* A step that attempts write access through h, and how it ends.
WriteAttempt(h) == borrow_mut(h) \/ \E f \in Closures : with_mut(h, f)
WriteFailed(h) == WriteAttempt(h) /\ result' = "BorrowError"

\* n + 1 on 32 bits, written out digit by digit.
Succ32(n) ==
    IF n.lo < Half - 1 THEN U32(n.hi, n.lo + 1)
    ELSE IF n.hi < Half - 1 THEN U32(n.hi + 1, 0)
    ELSE Zero

\* borrow_mut(), f through the guard, drop of the guard, one after the other.
Manual(m, c, n, f) ==
    LET b == BorrowMutOn(m, c, n)
        d == DerefMutOn(b.c, f)
    IN IF b.ok
       THEN [m |-> b.m, n |-> b.n, c |-> DropWriteOn(d.c), ok |-> TRUE, ret |-> d.ret]
       ELSE [m |-> b.m, n |-> b.n, c |-> b.c, ok |-> FALSE, ret |-> 0]

(* C1 *)
\* A clone s of a handle, taken before write access was acquired through that
\* handle, compares unequal to it.
C1_CloneDiffers ==
    \A s \in Handles :
        parent[s] # 0 /\ "h" \in since[s] => ~MrcEq(mrc[parent[s]], mrc[s])

\* A reducer that takes write access leaves a state unequal to the previous one
\* and the observer is notified.
C1_ReducerNotifies ==
    \A r \in WriteReducers : reduce(r) => ~MrcEq(store', store) /\ flag'

\* C1 as stated: after write access is acquired through c (borrow_mut or with_mut,
\* nothing need be modified), c == c2 is false for every clone c2 of c taken
\* before; so a reducer that acquires write access always notifies the observers.
C1_Original == [][C1_CloneDiffers' /\ C1_ReducerNotifies]_vars

\* C1, amended: the same, as long as the thread's counter has not wrapped around.
C1_UnequalAfterWrite ==
    [][wraps' = 0 => C1_CloneDiffers' /\ C1_ReducerNotifies]_vars

C1_Witness ==
    /\ wraps = 0
    /\ \E s \in Handles :
          /\ parent[s] # 0
          /\ since[s] = {"h"}
          /\ ~MrcEq(mrc[parent[s]], mrc[s])

(* C2 *)
\* C2: two handles are equal exactly when they were made from the same create
\* call (same storage) and carry the same marker; the value plays no part.
C2_EqIffSameStorageAndMarker ==
    \A a, b \in Handles :
        Live(a) /\ Live(b) =>
            (MrcEq(mrc[a], mrc[b])
                <=> (cluster[a] = cluster[b] /\ mrc[a].nonce = mrc[b].nonce))

\* Two handles of separate create calls, their markers and their values the same.
C2_Witness ==
    \E a, b \in Handles :
        /\ Live(a) /\ Live(b)
        /\ cluster[a] # cluster[b]
        /\ mrc[a].nonce = mrc[b].nonce
        /\ Observed(a) = Observed(b)
        /\ ~MrcEq(mrc[a], mrc[b])

(* C3 *)
\* C3 as stated: if write access to the shared value was acquired, through any
\* handle of the cluster, after s was cloned from h, then h == s is false.
\* (Stated on the runs in which the counter has not wrapped around, so that what
\* refutes it is a write through a third handle and not a marker met again.)
C3_Original ==
    \A s \in Handles :
        parent[s] # 0 /\ wraps = 0 /\ since[s] # {} => ~MrcEq(mrc[parent[s]], mrc[s])

\* C3, amended: if write access was acquired through h or through s after s was
\* cloned from h, and the thread's counter has not wrapped around, h == s is false.
C3_NoMissedChange ==
    \A s \in Handles :
        parent[s] # 0 /\ wraps = 0 /\ since[s] \cap {"h", "s"} # {}
            => ~MrcEq(mrc[parent[s]], mrc[s])

C3_Witness ==
    /\ wraps = 0
    /\ \E s \in Handles :
          /\ parent[s] # 0
          /\ "s" \in since[s] /\ "h" \notin since[s]
          /\ ~MrcEq(mrc[parent[s]], mrc[s])

(* C4 *)
\* C4: clone() gives a handle on the original's storage with the original's
\* marker, leaves the original, the counter, the value and the observer's flag as
\* they were, changes no comparison between the other handles, and the original
\* and the clone compare equal.
C4_CloneSignalsNothing ==
    [][\A h, s \in Handles :
          clone(h, s) =>
              /\ mrc'[s].inner = mrc[h].inner
              /\ mrc'[s].nonce = mrc[h].nonce
              /\ mrc'[h] = mrc[h]
              /\ NONCE' = NONCE
              /\ Observed(h)' = Observed(h)
              /\ Observed(s)' = Observed(h)
              /\ flag' = flag /\ store' = store
              /\ MrcEq(mrc'[h], mrc'[s])
              /\ \A a, b \in Handles \ {s} :
                    MrcEq(mrc'[a], mrc'[b]) = MrcEq(mrc[a], mrc[b])]_vars

C4_Witness ==
    \E s \in Handles :
        /\ parent[s] # 0
        /\ since[s] = {}
        /\ mrc[s].nonce # Zero
        /\ Cell(s).strong > 1
        /\ MrcEq(mrc[parent[s]], mrc[s])

(* C5 *)
C5_Discipline ==
    \A l \in Handles :
        Writers(l) = 0 \/ (Writers(l) = 1 /\ Readers(l) = 0)

C5_Acquire ==
    \A h \in Handles :
        /\ borrow(h) =>
              /\ result' = "ok" <=> Writers(cluster[h]) = 0
              /\ result' = "ok" => rg'[h] = rg[h] + 1
        /\ WriteAttempt(h) =>
              result' = "ok" <=> (Writers(cluster[h]) = 0 /\ Readers(cluster[h]) = 0)
        /\ borrow_mut(h) /\ result' = "ok" => wg'[h]

C7_WithMutIsManualBorrow ==
    [][\A h \in Handles, f \in Closures :
          with_mut(h, f) =>
              LET man == Manual(mrc[h], Cell(h), NONCE, f)
              IN /\ mrc'[h] = man.m
                 /\ NONCE' = man.n
                 /\ cells'[mrc[h].inner] = man.c
                 /\ result' = Outcome(man.ok)
                 /\ WithMutOn(mrc[h], Cell(h), NONCE, f).ret = man.ret
                 /\ wg' = wg /\ rg' = rg
                 /\ cells'[mrc[h].inner].borrow = Cell(h).borrow]_vars

\* with_mut has just incremented the value to 1 through h.
C7_Witness ==
    \E h \in Handles :
        /\ Live(h)
        /\ shadow[cluster[h]] = [val |-> 1, by |-> "with_mut"]
        /\ mrc[h].nonce = NONCE
        /\ Cell(h).borrow = 0
        /\ result = "ok"

(* C8 *)
\* C8: every handle of a cluster observes the value last written through any
\* handle of the cluster (the initial value when none was written).
C8_OneValuePerCluster ==
    \A h \in Handles : Live(h) => Observed(h) = shadow[cluster[h]].val

\* A read guard through h on the 1 that with_mut wrote through another handle t.
C8_Witness ==
    \E h, t \in Handles :
        /\ Live(h) /\ Live(t) /\ h # t
        /\ cluster[h] = cluster[t]
        /\ rg[h] > 0
        /\ mrc[t].nonce = NONCE /\ mrc[h].nonce # NONCE
        /\ shadow[cluster[h]] = [val |-> 1, by |-> "with_mut"]
        /\ Observed(h) = 1

(* C9 *)
\* C9: taking and releasing a read guard changes no marker, not the counter, no
\* value, not the store, and no comparison of two handles.
C9_ReadSignalsNothing ==
    [][\A h \in Handles :
          borrow(h) \/ drop_read(h) =>
              /\ mrc' = mrc
              /\ NONCE' = NONCE
              /\ store' = store /\ flag' = flag
              /\ \A a \in Addrs : cells'[a].value = cells[a].value
              /\ \A a, b \in Handles :
                    MrcEq(mrc'[a], mrc'[b]) = MrcEq(mrc[a], mrc[b])]_vars

\* A read guard is alive on h, and h still equals its clone.
C9_Witness ==
    /\ result = "ok"
    /\ \E h, s \in Handles :
          /\ rg[h] > 0
          /\ parent[s] = h
          /\ MrcEq(mrc[h], mrc[s])

(* C10 *)
C10_CounterAdvancesValueStays(h) ==
    /\ NONCE' = Succ32(NONCE)
    /\ mrc'[h].nonce = NONCE'
    /\ \A a \in Addrs : cells'[a] = cells[a]

C10_MarkerChanged(h) ==
    /\ mrc'[h].nonce # mrc[h].nonce
    /\ \A s \in Handles : parent[s] = h => ~MrcEq(mrc'[h], mrc'[s])

\* C10 as stated: a refused write access has advanced the counter and given the
\* handle a new marker, so the handle's marker has changed and the handle is
\* unequal to the clones taken before; the value is unchanged.
C10_Original ==
    [][\A h \in Handles :
          WriteFailed(h) => C10_CounterAdvancesValueStays(h) /\ C10_MarkerChanged(h)]_vars

\* C10, amended: the marker has changed and the handle is unequal to its earlier
\* clones as long as the thread's counter has not wrapped around.
C10_FailedWriteStillMarks ==
    [][\A h \in Handles :
          WriteFailed(h) =>
              /\ C10_CounterAdvancesValueStays(h)
              /\ wraps' = 0 => C10_MarkerChanged(h)]_vars

\* A write through h was just refused because its clone s holds a read guard.
C10_Witness ==
    /\ wraps = 0
    /\ result = "BorrowError"
    /\ \E h, s \in Handles :
          /\ parent[s] = h
          /\ since[s] = {}
          /\ rg[s] > 0
          /\ mrc[h].nonce = NONCE
          /\ ~MrcEq(mrc[h], mrc[s])
====
